---- MODULE Spec2Model ----
(***************************************************************************)
(* A model of the obs-canvas viewer: the App component that loads a Canvas *)
(* document from a Gist (App.vue), and the loader/converter functions of   *)
(* utils/canvasLoader.ts together with the two earlier variants of that    *)
(* file (the "mix-with-black" and the "HSL" variant).                      *)
(*                                                                         *)
(* JavaScript strings are modelled as sequences of one-character strings,  *)
(* so that split, slice, includes and the regular expressions of the code  *)
(* are computed character by character.  An absent value (undefined) is    *)
(* Undefined, null is Null; neither is a sequence of characters.           *)
(***************************************************************************)
EXTENDS Integers, Sequences, FiniteSets, TLC

VARIABLES
    pathname,   \* window.location.pathname
    nodes,      \* App.vue: ref nodes
    edges,      \* App.vue: ref edges
    isLoading,  \* App.vue: ref isLoading
    error,      \* App.vue: ref error
    gistInfo,   \* App.vue: ref gistInfo
    mounted,    \* has onMounted run
    pending,    \* the loadCanvas invocations suspended at their await
    started,    \* number of loadCanvas invocations started so far
    last,       \* outcome of the most recently completed loadCanvas invocation
    call        \* a direct application of one function of the loader: its
                \* name, its argument and its result

vars == <<pathname, nodes, edges, isLoading, error, gistInfo, mounted,
          pending, started, last, call>>

viewerVars == <<pathname, nodes, edges, isLoading, error, gistInfo, mounted,
                pending, started, last>>

\* Values that stand for "no string": each is a sequence, so that it can be
\* compared with any string.
Undefined == <<"undefined">>
Null == <<"null">>

\* null where an object is expected, undefined where an array is expected.
NullObject == [null |-> TRUE]
UndefinedArray == <<[undefined |-> TRUE]>>

\* JavaScript truthiness of an optional string: defined and not empty.
Truthy(s) == s # Undefined /\ s # Null /\ s # <<>>

\* a || b on optional strings
Or(a, b) == IF Truthy(a) THEN a ELSE b

-----------------------------------------------------------------------------
(* JavaScript string primitives *)

\* String.prototype.indexOf for a one-character needle; 0 when absent
\* (positions are 1-based here).
RECURSIVE IndexFrom(_, _, _)
IndexFrom(s, c, i) ==
    IF i > Len(s) THEN 0
    ELSE IF s[i] = c THEN i
    ELSE IndexFrom(s, c, i + 1)

IndexOf(s, c) == IndexFrom(s, c, 1)

\* String.prototype.split with a one-character separator.
RECURSIVE Split(_, _)
Split(s, c) ==
    LET i == IndexOf(s, c) IN
    IF i = 0 THEN <<s>>
    ELSE <<SubSeq(s, 1, i - 1)>> \o Split(SubSeq(s, i + 1, Len(s)), c)

\* String.prototype.startsWith
StartsWith(s, p) == Len(s) >= Len(p) /\ SubSeq(s, 1, Len(p)) = p

\* String.prototype.includes
Includes(s, p) ==
    \E i \in 1..(Len(s) - Len(p) + 1) : SubSeq(s, i, i + Len(p) - 1) = p

\* pathname.replace(/^\//, ''): one leading slash is removed.
StripLeadingSlash(s) ==
    IF Len(s) > 0 /\ s[1] = "/" THEN SubSeq(s, 2, Len(s)) ELSE s

-----------------------------------------------------------------------------
(* App.vue: parseUrlForGistInfo *)

parseUrlForGistInfo_noSecondCheck(path) ==
    LET parts == Split(StripLeadingSlash(path), "/") IN
    IF Len(parts) = 2 /\ parts[1] # <<>>
    THEN [username |-> parts[1], gistId |-> parts[2]]
    ELSE NullObject

parseUrlForGistInfo(path) ==
    LET parts == Split(StripLeadingSlash(path), "/") IN
    IF Len(parts) = 2 /\ parts[1] # <<>> /\ parts[2] # <<>>
    THEN [username |-> parts[1], gistId |-> parts[2]]
    ELSE NullObject

-----------------------------------------------------------------------------
(* String literals of utils/canvasLoader.ts and App.vue *)

TextKind == <<"t", "e", "x", "t">>  \* 'text'

FileKind == <<"f", "i", "l", "e">>  \* 'file'

DefaultType == <<"d", "e", "f", "a", "u", "l", "t">>  \* 'default'

InputType == <<"i", "n", "p", "u", "t">>  \* 'input'

CanvasType == <<"c", "a", "n", "v", "a", "s">>  \* 'canvas'

GroupKind == <<"g", "r", "o", "u", "p">>  \* 'group', a kind that is neither text nor file

HelloWorld == <<"H", "e", "l", "l", "o", "\n", "W", "o", "r", "l", "d">>  \* "Hello\nWorld"

PathABC == <<"a", "/", "b", "/", "c", ".", "m", "d">>  \* "a/b/c.md"

NodeSuffix == <<" ", "n", "o", "d", "e">>  \* ' node'

Ellipsis == <<".", ".", ".">>  \* '...'

Px == <<"p", "x">>  \* 'px'

LightBackground == <<"r", "g", "b", "(", "2", "4", "2", " ", "2", "4", "2", " ", "2", "4", "2", ")">>  \* 'rgb(242 242 242)'

LightBorder == <<"1", "p", "x", " ", "s", "o", "l", "i", "d", " ", "#", "d", "d", "d">>  \* '1px solid #ddd'

BorderRadius == <<"8", "p", "x">>  \* '8px'

FontSize == <<"1", "4", "p", "x">>  \* '14px'

EdgeGray == <<"#", "b", "1", "b", "1", "b", "7">>  \* '#b1b1b7'

-----------------------------------------------------------------------------
(* Numbers in template literals: `${n}` for an integer n *)

Digit(d) == CASE d = 0 -> "0" [] d = 1 -> "1" [] d = 2 -> "2" [] d = 3 -> "3"
              [] d = 4 -> "4" [] d = 5 -> "5" [] d = 6 -> "6" [] d = 7 -> "7"
              [] d = 8 -> "8" [] d = 9 -> "9"

RECURSIVE NatToString(_)
NatToString(n) ==
    IF n < 10 THEN <<Digit(n)>> ELSE NatToString(n \div 10) \o <<Digit(n % 10)>>

NumberToString(n) == IF n < 0 THEN <<"-">> \o NatToString(-n) ELSE NatToString(n)

-----------------------------------------------------------------------------
(* utils/canvasLoader.ts: getNodeLabel, getVueFlowNodeType *)

LabelLimit == 50

LabelKeep == 47

getVueFlowNodeType(canvasType) ==
    CASE canvasType = TextKind -> DefaultType
      [] canvasType = FileKind -> InputType
      [] OTHER -> DefaultType

getNodeLabel_keep50(node) ==
    IF Truthy(node.text)
    THEN LET firstLine == Split(node.text, "\n")[1] IN
         IF Len(firstLine) > LabelLimit
         THEN SubSeq(firstLine, 1, LabelLimit) \o Ellipsis
         ELSE firstLine
    ELSE IF Truthy(node.file)
    THEN LET parts == Split(node.file, "/") IN Or(parts[Len(parts)], node.file)
    ELSE node.type \o NodeSuffix

getNodeLabel_noFallback(node) ==
    IF Truthy(node.text)
    THEN LET firstLine == Split(node.text, "\n")[1] IN
         IF Len(firstLine) > LabelLimit
         THEN SubSeq(firstLine, 1, LabelKeep) \o Ellipsis
         ELSE firstLine
    ELSE IF Truthy(node.file)
    THEN LET parts == Split(node.file, "/") IN parts[Len(parts)]
    ELSE node.type \o NodeSuffix

getNodeLabel(node) ==
    IF Truthy(node.text)
    THEN LET firstLine == Split(node.text, "\n")[1] IN
         IF Len(firstLine) > LabelLimit
         THEN SubSeq(firstLine, 1, LabelKeep) \o Ellipsis
         ELSE firstLine
    ELSE IF Truthy(node.file)
    THEN LET parts == Split(node.file, "/") IN Or(parts[Len(parts)], node.file)
    ELSE node.type \o NodeSuffix

-----------------------------------------------------------------------------
(* utils/canvasLoader.ts: isGistUrl, convertGistToRawUrl; App.vue: constructGistUrl *)

\* 'gist.github.com'
GistHostName ==
    <<"g", "i", "s", "t", ".", "g", "i", "t", "h", "u", "b", ".", "c", "o",
      "m">>

\* 'gist.githubusercontent.com'
RawHostName ==
    <<"g", "i", "s", "t", ".", "g", "i", "t", "h", "u", "b", "u", "s", "e",
      "r", "c", "o", "n", "t", "e", "n", "t", ".", "c", "o", "m">>

\* 'https://gist.github.com/'
GistUrlPrefix ==
    <<"h", "t", "t", "p", "s", ":", "/", "/", "g", "i", "s", "t", ".", "g",
      "i", "t", "h", "u", "b", ".", "c", "o", "m", "/">>

\* 'https://gist.githubusercontent.com/'
RawUrlPrefix ==
    <<"h", "t", "t", "p", "s", ":", "/", "/", "g", "i", "s", "t", ".", "g",
      "i", "t", "h", "u", "b", "u", "s", "e", "r", "c", "o", "n", "t", "e",
      "n", "t", ".", "c", "o", "m", "/">>

\* '/raw/'
RawPath ==
    <<"/", "r", "a", "w", "/">>

\* '#file-'
FilePrefix ==
    <<"#", "f", "i", "l", "e", "-">>

\* 'gist.github.com/'
GistPattern ==
    <<"g", "i", "s", "t", ".", "g", "i", "t", "h", "u", "b", ".", "c", "o",
      "m", "/">>

UpperCase == <<"A", "B", "C", "D", "E", "F", "G", "H", "I", "J", "K", "L", "M",
               "N", "O", "P", "Q", "R", "S", "T", "U", "V", "W", "X", "Y", "Z">>

LowerCase == <<"a", "b", "c", "d", "e", "f", "g", "h", "i", "j", "k", "l", "m",
               "n", "o", "p", "q", "r", "s", "t", "u", "v", "w", "x", "y", "z">>

\* The case folding of the regular expression flag i, on the letters A-Z.
ToLower(c) ==
    IF \E k \in 1..Len(UpperCase) : UpperCase[k] = c
    THEN LowerCase[CHOOSE k \in 1..Len(UpperCase) : UpperCase[k] = c]
    ELSE c

\* The character class [a-f0-9] under the flag i.
IsHexChar(c) ==
    ToLower(c) \in {"0", "1", "2", "3", "4", "5", "6", "7", "8", "9",
                    "a", "b", "c", "d", "e", "f"}

\* The length of the longest run of characters other than '/' that starts
\* at position i of s: the group ([^\/]+).
RECURSIVE NotSlashRun(_, _)
NotSlashRun(s, i) ==
    IF i <= Len(s) /\ s[i] # "/" THEN 1 + NotSlashRun(s, i + 1) ELSE 0

\* The length of the longest run of hexadecimal digits that starts at
\* position i of s: the group ([a-f0-9]+).
RECURSIVE HexRun(_, _)
HexRun(s, i) ==
    IF i <= Len(s) /\ IsHexChar(s[i]) THEN 1 + HexRun(s, i + 1) ELSE 0

\* The length of the longest run of characters that '.' matches (no line
\* terminator) that starts at position i of s: the group (.+).
RECURSIVE LineRun(_, _)
LineRun(s, i) ==
    IF i <= Len(s) /\ s[i] \notin {"\n", "\r"} THEN 1 + LineRun(s, i + 1) ELSE 0

\* The regular expression has a match starting at position i of s.
GistPatternAt(s, i) ==
    LET n == Len(GistPattern)
        u == NotSlashRun(s, i + n)
        g == HexRun(s, i + n + u + 1)
    IN  /\ i + n - 1 <= Len(s)
        /\ \A k \in 1..n : ToLower(s[i + k - 1]) = GistPattern[k]
        /\ u >= 1
        /\ i + n + u <= Len(s)
        /\ s[i + n + u] = "/"
        /\ g >= 1

NoMatch == [matched |-> FALSE]

\* cleanUrl.match(/gist\.github\.com\/([^\/]+)\/([a-f0-9]+)/i): the leftmost
\* match and its two groups.
MatchGist(s) ==
    LET starts == {i \in 1..Len(s) : GistPatternAt(s, i)} IN
    IF starts = {} THEN NoMatch
    ELSE LET i == CHOOSE j \in starts : \A k \in starts : j <= k
             n == Len(GistPattern)
             u == NotSlashRun(s, i + n)
             g == HexRun(s, i + n + u + 1)
         IN  [matched |-> TRUE,
              username |-> SubSeq(s, i + n, i + n + u - 1),
              gistId |-> SubSeq(s, i + n + u + 1, i + n + u + g)]

\* gistUrl.match(/#file-(.+)/): the leftmost match and its group.
MatchFileFragment(s) ==
    LET n == Len(FilePrefix)
        starts == {i \in 1..Len(s) :
                     /\ i + n - 1 <= Len(s)
                     /\ SubSeq(s, i, i + n - 1) = FilePrefix
                     /\ LineRun(s, i + n) >= 1}
    IN  IF starts = {} THEN NoMatch
        ELSE LET i == CHOOSE j \in starts : \A k \in starts : j <= k IN
             [matched |-> TRUE,
              name |-> SubSeq(s, i + n, i + n + LineRun(s, i + n) - 1)]

\* fragment.replace(/-/g, '.')
DashesToDots_first(s) ==
    LET dashes == {i \in 1..Len(s) : s[i] = "-"} IN
    [i \in 1..Len(s) |->
        IF i \in dashes /\ \A j \in dashes : i <= j THEN "." ELSE s[i]]

DashesToDots(s) == [i \in 1..Len(s) |-> IF s[i] = "-" THEN "." ELSE s[i]]

isGistUrl(path) == Includes(path, GistHostName) \/ Includes(path, RawHostName)

\* the conversion without its first test
convertGistToRawUrl_noRawCheck(gistUrl) ==
    IF Includes(gistUrl, GistHostName)
    THEN LET cleanUrl == Split(gistUrl, "#")[1]
             gistMatch == MatchGist(cleanUrl)
             fragmentMatch == MatchFileFragment(gistUrl)
         IN  IF gistMatch.matched
             THEN IF fragmentMatch.matched
                  THEN RawUrlPrefix \o gistMatch.username \o <<"/">>
                         \o gistMatch.gistId \o RawPath
                         \o DashesToDots(fragmentMatch.name)
                  ELSE RawUrlPrefix \o gistMatch.username \o <<"/">>
                         \o gistMatch.gistId \o RawPath
             ELSE gistUrl
    ELSE gistUrl

convertGistToRawUrl(gistUrl) ==
    IF Includes(gistUrl, RawHostName) THEN gistUrl
    ELSE IF Includes(gistUrl, GistHostName)
    THEN LET cleanUrl == Split(gistUrl, "#")[1]
             gistMatch == MatchGist(cleanUrl)
             fragmentMatch == MatchFileFragment(gistUrl)
         IN  IF gistMatch.matched
             THEN IF fragmentMatch.matched
                  THEN RawUrlPrefix \o gistMatch.username \o <<"/">>
                         \o gistMatch.gistId \o RawPath
                         \o DashesToDots(fragmentMatch.name)
                  ELSE RawUrlPrefix \o gistMatch.username \o <<"/">>
                         \o gistMatch.gistId \o RawPath
             ELSE gistUrl
    ELSE gistUrl

constructGistUrl(username, gistId) ==
    GistUrlPrefix \o username \o <<"/">> \o gistId

-----------------------------------------------------------------------------
(* utils/canvasLoader.ts: convertNodesToVueFlow, convertEdgesToVueFlow *)

EdgeStrokeWidth == 2

convertNode(node) ==
    [id |-> node.id,
     type |-> getVueFlowNodeType(node.type),
     position |-> [x |-> node.x, y |-> node.y],
     dimensions |-> [width |-> node.width, height |-> node.height],
     data |-> [label |-> getNodeLabel(node),
               content |-> Or(node.text, Or(node.file, <<>>)),
               originalType |-> node.type,
               width |-> node.width,
               height |-> node.height,
               color |-> node.color],
     style |-> [width |-> NumberToString(node.width) \o Px,
                height |-> NumberToString(node.height) \o Px,
                backgroundColor |-> Or(node.color, LightBackground),
                border |-> LightBorder,
                borderRadius |-> BorderRadius,
                fontSize |-> FontSize]]

convertNodesToVueFlow(canvasNodes) ==
    [i \in 1..Len(canvasNodes) |-> convertNode(canvasNodes[i])]

convertEdge(edge) ==
    [id |-> edge.id,
     source |-> edge.fromNode,
     target |-> edge.toNode,
     sourceHandle |-> edge.fromSide,
     targetHandle |-> edge.toSide,
     style |-> [stroke |-> Or(edge.color, EdgeGray),
                strokeWidth |-> EdgeStrokeWidth],
     type |-> DefaultType]

convertEdgesToVueFlow(canvasEdges) ==
    [i \in 1..Len(canvasEdges) |-> convertEdge(canvasEdges[i])]

-----------------------------------------------------------------------------
(* utils/canvasLoader.ts: loadCanvasFile, loadCanvasForVueFlow *)

\* 'Invalid file path'
InvalidFilePath ==
    <<"I", "n", "v", "a", "l", "i", "d", " ", "f", "i", "l", "e", " ", "p",
      "a", "t", "h">>

\* `Failed to load canvas file: ${response.statusText}`
FailedToLoad ==
    <<"F", "a", "i", "l", "e", "d", " ", "t", "o", " ", "l", "o", "a", "d",
      " ", "c", "a", "n", "v", "a", "s", " ", "f", "i", "l", "e", ":", " ">>

\* 'Invalid URL format. Expected: /{username}/{gistId}'
InvalidUrlFormat ==
    <<"I", "n", "v", "a", "l", "i", "d", " ", "U", "R", "L", " ", "f", "o",
      "r", "m", "a", "t", ".", " ", "E", "x", "p", "e", "c", "t", "e", "d",
      ":", " ", "/", "{", "u", "s", "e", "r", "n", "a", "m", "e", "}", "/",
      "{", "g", "i", "s", "t", "I", "d", "}">>

\* the message of the TypeError a rejected fetch carries
FailedToFetch ==
    <<"F", "a", "i", "l", "e", "d", " ", "t", "o", " ", "f", "e", "t", "c",
      "h">>

\* the message of the SyntaxError of response.json()
UnexpectedToken ==
    <<"U", "n", "e", "x", "p", "e", "c", "t", "e", "d", " ", "t", "o", "k",
      "e", "n">>

\* the message of the TypeError of undefined.map(...)
CannotReadMap ==
    <<"C", "a", "n", "n", "o", "t", " ", "r", "e", "a", "d", " ", "p", "r",
      "o", "p", "e", "r", "t", "i", "e", "s", " ", "o", "f", " ", "u", "n",
      "d", "e", "f", "i", "n", "e", "d", " ", "(", "r", "e", "a", "d", "i",
      "n", "g", " ", "'", "m", "a", "p", "'", ")">>

\* A function either returns a value or throws an Error with a message.
Returned(v) == [ok |-> TRUE, value |-> v, message |-> <<>>]

Thrown(msg) == [ok |-> FALSE, value |-> <<>>, message |-> msg]

\* a request for every path
loadCanvasFile_request_anyPath(filePath) == Returned(convertGistToRawUrl(filePath))

\* loadCanvasFile up to its fetch: the URL it requests, or the Error thrown.
loadCanvasFile_request(filePath) ==
    IF isGistUrl(filePath)
    THEN Returned(convertGistToRawUrl(filePath))
    ELSE Thrown(InvalidFilePath)

\* loadCanvasFile after its fetch resolved with a response.
loadCanvasFile_response(response) ==
    IF ~response.ok
    THEN Thrown(FailedToLoad \o response.statusText)
    ELSE Returned(response)

\* loadCanvasFile after response.json() settled.
loadCanvasFile_json(response) ==
    IF ~response.json
    THEN Thrown(UnexpectedToken)
    ELSE Returned(response.value)

\* loadCanvasForVueFlow after loadCanvasFile returned canvasData: the two
\* conversions, in order; .map on an absent array throws.
loadCanvasForVueFlow_partial(canvasData) ==
    IF canvasData.nodes = UndefinedArray
    THEN Thrown(CannotReadMap)
    ELSE Returned([nodes |-> convertNodesToVueFlow(canvasData.nodes),
                   edges |-> IF canvasData.edges = UndefinedArray THEN <<>>
                             ELSE convertEdgesToVueFlow(canvasData.edges)])

loadCanvasForVueFlow_convert(canvasData) ==
    IF canvasData.nodes = UndefinedArray
    THEN Thrown(CannotReadMap)
    ELSE IF canvasData.edges = UndefinedArray
    THEN Thrown(CannotReadMap)
    ELSE Returned([nodes |-> convertNodesToVueFlow(canvasData.nodes),
                   edges |-> convertEdgesToVueFlow(canvasData.edges)])

-----------------------------------------------------------------------------
(* Numbers of the color functions.  A number that may be NaN is a sequence: *)
(* <<>> is NaN and <<n>> is the integer n.  Fractions are exact: the value  *)
(* n/d is the record [n |-> n, d |-> d] in lowest terms with d > 0.         *)

NaN == <<>>

RECURSIVE GCD(_, _)
GCD(a, b) == IF b = 0 THEN a ELSE GCD(b, a % b)

Abs(a) == IF a < 0 THEN -a ELSE a

\* The greatest common divisor of a and b, 1 when both are 0.
Common(a, b) == LET g == GCD(Abs(a), Abs(b)) IN IF g = 0 THEN 1 ELSE g

Rat(n, d) ==
    LET g == Common(n, d) IN
    IF d < 0 THEN [n |-> (-n) \div g, d |-> (-d) \div g]
    ELSE [n |-> n \div g, d |-> d \div g]

RInt(k) == [n |-> k, d |-> 1]

RAdd(a, b) ==
    LET g == Common(a.d, b.d) IN
    Rat(a.n * (b.d \div g) + b.n * (a.d \div g), (a.d \div g) * b.d)

RNeg(a) == [n |-> -a.n, d |-> a.d]

RSub(a, b) == RAdd(a, RNeg(b))

RMul(a, b) ==
    LET g1 == Common(a.n, b.d)
        g2 == Common(b.n, a.d)
    IN  Rat((a.n \div g1) * (b.n \div g2), (a.d \div g2) * (b.d \div g1))

\* a / b for b # 0
RDiv(a, b) == RMul(a, Rat(b.d, b.n))

RLess(a, b) ==
    LET g == Common(a.d, b.d) IN a.n * (b.d \div g) < b.n * (a.d \div g)

RMax(a, b) == IF RLess(a, b) THEN b ELSE a

RMin(a, b) == IF RLess(b, a) THEN b ELSE a

\* Math.floor
RFloor(a) == a.n \div a.d

\* x % 1: the remainder has the sign of x.
RMod1(a) ==
    IF a.n >= 0 THEN RSub(a, RInt(RFloor(a)))
    ELSE RNeg(RSub(RNeg(a), RInt(RFloor(RNeg(a)))))

\* Math.round: the nearest integer, a tie going up.
MathRound(a) == RFloor(RAdd(a, Rat(1, 2)))

-----------------------------------------------------------------------------
(* parseInt, String.prototype.slice and match(/\d+/g) *)

HexDigits == <<"0", "1", "2", "3", "4", "5", "6", "7", "8", "9",
               "a", "b", "c", "d", "e", "f">>

HexValue(c) == (CHOOSE k \in 1..Len(HexDigits) : HexDigits[k] = ToLower(c)) - 1

IsDecChar(c) == c \in {"0", "1", "2", "3", "4", "5", "6", "7", "8", "9"}

IsWhiteSpace(c) == c \in {" ", "\t", "\n", "\r"}

\* s.slice(from, to) with 0 <= from <= to
Slice(s, from, to) ==
    LET stop == IF to < Len(s) THEN to ELSE Len(s) IN
    IF from >= stop THEN <<>> ELSE SubSeq(s, from + 1, stop)

RECURSIVE WhiteSpaceRun(_, _)
WhiteSpaceRun(s, i) ==
    IF i <= Len(s) /\ IsWhiteSpace(s[i]) THEN 1 + WhiteSpaceRun(s, i + 1) ELSE 0

RECURSIVE DecRun(_, _)
DecRun(s, i) ==
    IF i <= Len(s) /\ IsDecChar(s[i]) THEN 1 + DecRun(s, i + 1) ELSE 0

\* The value of the digits s[i..j] in the given radix.
RECURSIVE DigitsValue(_, _, _, _)
DigitsValue(s, i, j, radix) ==
    IF j < i THEN 0
    ELSE DigitsValue(s, i, j - 1, radix) * radix + HexValue(s[j])

\* parseInt(s, 16): white space is skipped, then an optional sign and an
\* optional 0x, then the longest run of hexadecimal digits; NaN when that
\* run is empty.
ParseIntHex(s) ==
    LET a == 1 + WhiteSpaceRun(s, 1)
        signed == a <= Len(s) /\ s[a] \in {"+", "-"}
        b == IF signed THEN a + 1 ELSE a
        prefixed == b + 1 <= Len(s) /\ s[b] = "0" /\ s[b + 1] \in {"x", "X"}
        c == IF prefixed THEN b + 2 ELSE b
        n == HexRun(s, c)
        v == DigitsValue(s, c, c + n - 1, 16)
    IN  IF n = 0 THEN NaN
        ELSE IF signed /\ s[a] = "-" THEN <<-v>> ELSE <<v>>

\* parseInt(s) for a string s of decimal digits
ParseIntDec(s) == <<DigitsValue(s, 1, Len(s), 10)>>

\* color.match(/\d+/g): the maximal runs of decimal digits, from the left.
RECURSIVE DigitRunsFrom(_, _)
DigitRunsFrom(s, i) ==
    IF i > Len(s) THEN <<>>
    ELSE LET n == DecRun(s, i) IN
         IF n = 0 THEN DigitRunsFrom(s, i + 1)
         ELSE <<SubSeq(s, i, i + n - 1)>> \o DigitRunsFrom(s, i + n)

DigitRuns(s) == DigitRunsFrom(s, 1)

\* `${x}` for a number that may be NaN
ChannelToString(x) == IF x = NaN THEN <<"N", "a", "N">> ELSE NumberToString(x[1])

\* `rgb(${r}, ${g}, ${b})`
RgbString(r, g, b) ==
    <<"r", "g", "b", "(">> \o ChannelToString(r) \o <<",", " ">>
        \o ChannelToString(g) \o <<",", " ">> \o ChannelToString(b) \o <<")">>

FallbackGray == <<"r", "g", "b", "(", "2", "0", "0", ",", " ", "2", "0", "0", ",", " ", "2", "0", "0", ")">>  \* 'rgb(200, 200, 200)'

\* The three channels the color functions read from a color string: the
\* two-digit slices of a '#' color, the first three numbers of an 'rgb'
\* color; <<>> when the format is neither.
ParseChannels(color) ==
    IF StartsWith(color, <<"#">>)
    THEN LET hex == Slice(color, 1, Len(color)) IN
         <<ParseIntHex(Slice(hex, 0, 2)), ParseIntHex(Slice(hex, 2, 4)),
           ParseIntHex(Slice(hex, 4, 6))>>
    ELSE IF StartsWith(color, <<"r", "g", "b">>) /\ Len(DigitRuns(color)) >= 3
    THEN LET matches == DigitRuns(color) IN
         <<ParseIntDec(matches[1]), ParseIntDec(matches[2]), ParseIntDec(matches[3])>>
    ELSE <<>>

-----------------------------------------------------------------------------
(* components/CanvasNode.vue, lines 446-488: darkenColor, mixing with black *)

\* The code multiplies in double precision.  For a channel in -15..255 and
\* a percentage in {0, 20, 30, 50, 70, 100} the double product is the exact
\* product, except for these <<percentage, channel>> pairs, whose exact
\* product k + 1/2 is computed as a double just below it, so that
\* Math.round gives k and not k + 1.
DoubleBelowTie ==
    {<<30, 45>>, <<30, 85>>, <<30, 165>>, <<30, 175>>, <<70, -5>>, <<70, -15>>}

\* Math.round(channel * (1 - percentage / 100))
MixWithBlack_floor(channel, percentage) ==
    IF channel = NaN THEN NaN
    ELSE <<RFloor(RMul(RInt(channel[1]), RSub(RInt(1), Rat(percentage, 100))))>>

MixWithBlack(channel, percentage) ==
    IF channel = NaN THEN NaN
    ELSE LET exact == MathRound(RMul(RInt(channel[1]),
                                     RSub(RInt(1), Rat(percentage, 100))))
         IN  IF <<percentage, channel[1]>> \in DoubleBelowTie
             THEN <<exact - 1>> ELSE <<exact>>

darkenColor_mix(color, percentage) ==
    IF ~Truthy(color) THEN FallbackGray
    ELSE LET channels == ParseChannels(color) IN
         IF channels = <<>> THEN FallbackGray
         ELSE RgbString(MixWithBlack(channels[1], percentage),
                        MixWithBlack(channels[2], percentage),
                        MixWithBlack(channels[3], percentage))

-----------------------------------------------------------------------------
(* components/CanvasNode.vue, lines 728-827: darkenColor, darkening in HSL *)
(* with a hue shift.  The arithmetic is exact where the code computes in   *)
(* double precision; on the colors of the documents below, with the       *)
(* percentages and hue shifts the converters pass, both give the same      *)
(* rounded channels.                                                       *)

\* hue2rgb(p, q, t)
hue2rgb_noWrap(p, q, t0) ==
    LET t == IF RLess(RInt(1), t0) THEN RSub(t0, RInt(1)) ELSE t0
    IN  IF RLess(t, Rat(1, 6)) THEN RAdd(p, RMul(RMul(RSub(q, p), RInt(6)), t))
        ELSE IF RLess(t, Rat(1, 2)) THEN q
        ELSE IF RLess(t, Rat(2, 3))
        THEN RAdd(p, RMul(RMul(RSub(q, p), RSub(Rat(2, 3), t)), RInt(6)))
        ELSE p

hue2rgb(p, q, t0) ==
    LET t1 == IF RLess(t0, RInt(0)) THEN RAdd(t0, RInt(1)) ELSE t0
        t == IF RLess(RInt(1), t1) THEN RSub(t1, RInt(1)) ELSE t1
    IN  IF RLess(t, Rat(1, 6)) THEN RAdd(p, RMul(RMul(RSub(q, p), RInt(6)), t))
        ELSE IF RLess(t, Rat(1, 2)) THEN q
        ELSE IF RLess(t, Rat(2, 3))
        THEN RAdd(p, RMul(RMul(RSub(q, p), RSub(Rat(2, 3), t)), RInt(6)))
        ELSE p

\* The hue in [0, 1) of the normalized channels, for diff # 0.
HueOf(rNorm, gNorm, bNorm, max, diff) ==
    LET h == IF max = rNorm
             THEN RAdd(RDiv(RSub(gNorm, bNorm), diff),
                       IF RLess(gNorm, bNorm) THEN RInt(6) ELSE RInt(0))
             ELSE IF max = gNorm
             THEN RAdd(RDiv(RSub(bNorm, rNorm), diff), RInt(2))
             ELSE RAdd(RDiv(RSub(rNorm, gNorm), diff), RInt(4))
    IN  RDiv(h, RInt(6))

\* newH = (h - hueShift + 1) % 1
ShiftHue_right(h, hueShiftDegrees) ==
    RMod1(RAdd(RAdd(h, Rat(hueShiftDegrees, 360)), RInt(1)))

ShiftHue(h, hueShiftDegrees) ==
    RMod1(RAdd(RSub(h, Rat(hueShiftDegrees, 360)), RInt(1)))

\* Lines 764-791: hue, saturation and lightness of the normalized channels.
RgbToHsl(rNorm, gNorm, bNorm, max, min) ==
    LET diff == RSub(max, min)
        l == RDiv(RAdd(max, min), RInt(2))
    IN  [h |-> IF diff = RInt(0) THEN RInt(0)
               ELSE HueOf(rNorm, gNorm, bNorm, max, diff),
         s |-> IF diff = RInt(0) THEN RInt(0)
               ELSE IF RLess(Rat(1, 2), l)
               THEN RDiv(diff, RSub(RSub(RInt(2), max), min))
               ELSE RDiv(diff, RAdd(max, min)),
         l |-> l]

\* Lines 799-826: the 'rgb(...)' text of a hue, lightness and saturation.
HslToRgb(newH, newL, s) ==
    LET q == IF RLess(newL, Rat(1, 2)) THEN RMul(newL, RAdd(RInt(1), s))
             ELSE RSub(RAdd(newL, s), RMul(newL, s))
        p == RSub(RMul(RInt(2), newL), q)
        newR == IF s = RInt(0) THEN newL ELSE hue2rgb(p, q, RAdd(newH, Rat(1, 3)))
        newG == IF s = RInt(0) THEN newL ELSE hue2rgb(p, q, newH)
        newB == IF s = RInt(0) THEN newL ELSE hue2rgb(p, q, RSub(newH, Rat(1, 3)))
    IN  RgbString(<<MathRound(RMul(newR, RInt(255)))>>,
                  <<MathRound(RMul(newG, RInt(255)))>>,
                  <<MathRound(RMul(newB, RInt(255)))>>)

\* Lines 793-797: the hue shifted to the left, the lightness reduced.
DarkenHsl_factorKept(hsl, darkenPercentage, hueShiftDegrees) ==
    HslToRgb(ShiftHue(hsl.h, hueShiftDegrees),
             RMax(RInt(0), RMul(hsl.l, Rat(darkenPercentage, 100))),
             hsl.s)

DarkenHsl(hsl, darkenPercentage, hueShiftDegrees) ==
    HslToRgb(ShiftHue(hsl.h, hueShiftDegrees),
             RMax(RInt(0), RMul(hsl.l, RSub(RInt(1), Rat(darkenPercentage, 100)))),
             hsl.s)

\* Lines 763-826, for three channels that are numbers.
DarkenChannels(r, g, b, darkenPercentage, hueShiftDegrees) ==
    LET rNorm == Rat(r, 255)
        gNorm == Rat(g, 255)
        bNorm == Rat(b, 255)
    IN  DarkenHsl(RgbToHsl(rNorm, gNorm, bNorm,
                           RMax(RMax(rNorm, gNorm), bNorm),
                           RMin(RMin(rNorm, gNorm), bNorm)),
                  darkenPercentage, hueShiftDegrees)

\* A NaN channel makes max, min and every later value NaN.
darkenColor_hsl(color, darkenPercentage, hueShiftDegrees) ==
    IF ~Truthy(color) THEN FallbackGray
    ELSE LET channels == ParseChannels(color) IN
         IF channels = <<>> THEN FallbackGray
         ELSE IF \E i \in 1..3 : channels[i] = NaN
         THEN RgbString(NaN, NaN, NaN)
         ELSE DarkenChannels(channels[1][1], channels[2][1], channels[3][1],
                             darkenPercentage, hueShiftDegrees)

-----------------------------------------------------------------------------
(* components/CanvasNode.vue: the converters of the two earlier variants of *)
(* the loader (lines 496-546 and lines 834-922)                            *)

DarkDefault == <<"#", "1", "c", "2", "1", "2", "7">>  \* '#1c2127'

BorderGray == <<"#", "a", "1", "a", "1", "a", "1">>  \* '#a1a1a1'

BorderSolid == <<"4", "p", "x", " ", "s", "o", "l", "i", "d", " ">>  \* '4px solid '

EdgeStrokeWidth_mix == 10

EdgeStrokeWidth_hsl == 8

\* node.type === 'text' || node.type === 'file'
IsTextOrFile_textOnly(node) == node.type = TextKind

IsTextOrFile(node) == node.type = TextKind \/ node.type = FileKind

\* data whose content ignores the text
StrictData_fileOnly(node) ==
    [label |-> getNodeLabel(node),
     content |-> Or(node.file, <<>>),
     originalType |-> node.type,
     width |-> node.width,
     height |-> node.height,
     color |-> node.color]

StrictData(node) ==
    [label |-> getNodeLabel(node),
     content |-> Or(node.text, Or(node.file, <<>>)),
     originalType |-> node.type,
     width |-> node.width,
     height |-> node.height,
     color |-> node.color]

convertNode_mix(node) ==
    LET originalBackgroundColor == Or(node.color, DarkDefault)
        backgroundColor == IF Truthy(node.color)
                           THEN darkenColor_mix(originalBackgroundColor, 70)
                           ELSE DarkDefault
        borderColor == IF Truthy(node.color)
                       THEN darkenColor_mix(originalBackgroundColor, 30)
                       ELSE BorderGray
    IN  [id |-> node.id,
         type |-> getVueFlowNodeType(node.type),
         position |-> [x |-> node.x, y |-> node.y],
         data |-> StrictData(node),
         style |-> [backgroundColor |-> backgroundColor,
                    border |-> BorderSolid \o borderColor,
                    borderRadius |-> BorderRadius,
                    fontSize |-> FontSize]]

convertNodesToVueFlow_mix(canvasNodes) ==
    LET filteredNodes == SelectSeq(canvasNodes, IsTextOrFile) IN
    [i \in 1..Len(filteredNodes) |-> convertNode_mix(filteredNodes[i])]

convertEdge_mix(edge) ==
    [id |-> edge.id,
     source |-> edge.fromNode,
     target |-> edge.toNode,
     sourceHandle |-> edge.fromSide,
     targetHandle |-> edge.toSide,
     style |-> [stroke |-> darkenColor_mix(Or(edge.color, EdgeGray), 50),
                strokeWidth |-> EdgeStrokeWidth_mix],
     type |-> DefaultType]

convertEdgesToVueFlow_mix(canvasEdges) ==
    [i \in 1..Len(canvasEdges) |-> convertEdge_mix(canvasEdges[i])]

convertNode_hsl(node) ==
    LET originalBackgroundColor == Or(node.color, DarkDefault)
        backgroundColor == IF Truthy(node.color)
                           THEN darkenColor_hsl(originalBackgroundColor, 80, 5)
                           ELSE DarkDefault
        borderColor == darkenColor_hsl(originalBackgroundColor, 10, 10)
    IN  [id |-> node.id,
         type |-> getVueFlowNodeType(node.type),
         position |-> [x |-> node.x, y |-> node.y],
         data |-> StrictData(node),
         style |-> [backgroundColor |-> backgroundColor,
                    border |-> BorderSolid \o borderColor,
                    borderRadius |-> BorderRadius,
                    fontSize |-> FontSize]]

convertNodesToVueFlow_hsl(canvasNodes) ==
    LET filteredNodes == SelectSeq(canvasNodes, IsTextOrFile) IN
    [i \in 1..Len(filteredNodes) |-> convertNode_hsl(filteredNodes[i])]

\* A converter that exchanges the two endpoints of the edge.
convertEdge_hsl_swapped(edge) ==
    [id |-> edge.id,
     source |-> edge.toNode,
     target |-> edge.fromNode,
     sourceHandle |-> edge.toSide,
     targetHandle |-> edge.fromSide,
     style |-> [stroke |-> edge.color,
                strokeWidth |-> EdgeStrokeWidth_hsl],
     type |-> DefaultType]

convertEdge_hsl(edge) ==
    [id |-> edge.id,
     source |-> edge.fromNode,
     target |-> edge.toNode,
     sourceHandle |-> edge.fromSide,
     targetHandle |-> edge.toSide,
     style |-> [stroke |-> edge.color,
                strokeWidth |-> EdgeStrokeWidth_hsl],
     type |-> DefaultType]

convertEdgesToVueFlow_hsl(canvasEdges) ==
    [i \in 1..Len(canvasEdges) |-> convertEdge_hsl(canvasEdges[i])]

-----------------------------------------------------------------------------
(* Canvas documents the Gist host may serve *)

Red == <<"#", "f", "f", "0", "0", "0", "0">>  \* '#ff0000'

NotFound == <<"N", "o", "t", " ", "F", "o", "u", "n", "d">>  \* the statusText of a 404 response

Node(id, kind, text, file, x, y, w, h, color) ==
    [id |-> id, type |-> kind, text |-> text, file |-> file,
     x |-> x, y |-> y, width |-> w, height |-> h, color |-> color]

Edge(id, fromNode, fromSide, toNode, toSide, color) ==
    [id |-> id, fromNode |-> fromNode, fromSide |-> fromSide,
     toNode |-> toNode, toSide |-> toSide, color |-> color]

\* The node of the minimal document: text "Hi" at (0, 0), 100 x 50, no color.
NodeHi == Node(<<"n", "1">>, TextKind, <<"H", "i">>, Undefined, 0, 0, 100, 50, Undefined)

NodeFile == Node(<<"n", "2">>, FileKind, Undefined, PathABC, 120, -40, 200, 80, Red)

NodeGroup == Node(<<"n", "3">>, GroupKind, Undefined, Undefined, -10, -10, 400, 300, <<"4">>)

EdgeHiFile ==
    Edge(<<"e", "1">>, <<"n", "1">>, <<"r", "i", "g", "h", "t">>,
         <<"n", "2">>, <<"l", "e", "f", "t">>, Undefined)

\* An edge whose endpoints name no node of any document.
EdgeDangling ==
    Edge(<<"e", "2">>, <<"n", "8">>, <<"t", "o", "p">>,
         <<"n", "9">>, <<"b", "o", "t", "t", "o", "m">>, Red)

MinimalDocument == [nodes |-> <<NodeHi>>, edges |-> <<>>]

NoResponse ==
    [kind |-> "none", ok |-> FALSE, statusText |-> <<>>, json |-> FALSE,
     value |-> [nodes |-> UndefinedArray, edges |-> UndefinedArray]]

\* What a fetch may settle with: a rejection, a response with a
\* non-success status, a success response whose body is not JSON, and a
\* success response whose body is JSON. MalformedDocuments are JSON bodies
\* that are not a document: an array is absent.
Responses ==
    LET ViewerDocuments ==
            {MinimalDocument,
             [nodes |-> <<NodeHi, NodeFile>>, edges |-> <<EdgeHiFile>>],
             [nodes |-> <<NodeGroup, NodeFile>>,
              edges |-> <<EdgeDangling, EdgeHiFile>>],
             [nodes |-> <<>>, edges |-> <<>>]}
        MalformedDocuments ==
            {[nodes |-> UndefinedArray, edges |-> <<EdgeHiFile>>],
             [nodes |-> <<NodeHi>>, edges |-> UndefinedArray],
             [nodes |-> UndefinedArray, edges |-> UndefinedArray]}
    IN
    {[NoResponse EXCEPT !.kind = "reject"],
     [NoResponse EXCEPT !.kind = "response", !.statusText = NotFound],
     [NoResponse EXCEPT !.kind = "response", !.statusText = <<>>],
     [NoResponse EXCEPT !.kind = "response", !.ok = TRUE]}
    \cup {[NoResponse EXCEPT !.kind = "response", !.ok = TRUE, !.json = TRUE,
                             !.value = doc] :
            doc \in ViewerDocuments \cup MalformedDocuments}

-----------------------------------------------------------------------------
(* The viewer before the page is mounted (App.vue lines 12-16) *)

ViewerInit(path) ==
    /\ pathname = path
    /\ nodes = <<>>
    /\ edges = <<>>
    /\ isLoading = TRUE
    /\ error = Null
    /\ gistInfo = NullObject
    /\ mounted = FALSE
    /\ pending = {}
    /\ started = 0
    /\ last = [id |-> 0, result |-> "none", response |-> NoResponse]

NoCall == [fn |-> "none", arg |-> <<>>, ret |-> Undefined]

\* A function fn of the loader is applied to the argument drawn by Init.
Apply(fn, result) ==
    /\ call.fn = "none"
    /\ call' = [call EXCEPT !.fn = fn, !.ret = result]
    /\ UNCHANGED viewerVars

\* All sequences of at most n elements of A.
ListsUpTo(A, n) == UNION {[1..k -> A] : k \in 0..n}

-----------------------------------------------------------------------------
(* Specification Spec: the viewer (App.vue) *)

MaxLoads == 3

\* The paths: '/', '/u', '/u/ab', '/u/ab/', '/u/ab/c', '/u/xy', '//u/ab'
Init ==
    /\ \E path \in
          {<<"/">>, <<"/", "u">>, <<"/", "u", "/", "a", "b">>,
           <<"/", "u", "/", "a", "b", "/">>,
           <<"/", "u", "/", "a", "b", "/", "c">>,
           <<"/", "u", "/", "x", "y">>, <<"/", "/", "u", "/", "a", "b">>} :
          ViewerInit(path)
    /\ call = NoCall

\* The branch of the template that is rendered: v-if="isLoading",
\* v-else-if="error", v-else.
View ==
    IF isLoading THEN "loading"
    ELSE IF Truthy(error) THEN "error"
    ELSE "canvas"

\* nodes.value = canvasNodes.map(node => ({ ...node, type: 'canvas' }))
withCanvasType_unchanged(canvasNodes) == canvasNodes

withCanvasType(canvasNodes) ==
    [i \in 1..Len(canvasNodes) |-> [canvasNodes[i] EXCEPT !.type = CanvasType]]

\* The catch and finally blocks of loadCanvas, for the invocation id.
Caught_noFinally(id, response, message) ==
    /\ error' = message
    /\ last' = [id |-> id, result |-> "failed", response |-> response]
    /\ UNCHANGED <<nodes, edges, isLoading>>

Caught(id, response, message) ==
    /\ error' = message
    /\ isLoading' = FALSE
    /\ last' = [id |-> id, result |-> "failed", response |-> response]
    /\ UNCHANGED <<nodes, edges>>

LoadCanvas_noValidation ==
    LET id == started + 1 IN
        /\ started' = id
        /\ isLoading' = TRUE
        /\ error' = Null
        /\ pending' = pending \cup
              {[id |-> id, url |-> GistUrlPrefix \o pathname, stage |-> "fetch",
                response |-> NoResponse]}
        /\ UNCHANGED <<pathname, nodes, edges, gistInfo, last, call>>

\* loadCanvas from its first statement to its await: an invalid path is
\* caught at once, a valid one leaves the invocation suspended at the fetch.
LoadCanvas ==
    LET id == started + 1
        parsedGistInfo == parseUrlForGistInfo(pathname)
        request == loadCanvasFile_request(
                       constructGistUrl(parsedGistInfo.username, parsedGistInfo.gistId))
    IN  /\ started' = id
        /\ IF parsedGistInfo = NullObject
           THEN /\ Caught(id, NoResponse, InvalidUrlFormat)
                /\ UNCHANGED <<gistInfo, pending>>
           ELSE /\ gistInfo' = parsedGistInfo
                /\ IF request.ok
                   THEN /\ isLoading' = TRUE
                        /\ error' = Null
                        /\ pending' = pending \cup
                              {[id |-> id, url |-> request.value, stage |-> "fetch",
                                response |-> NoResponse]}
                        /\ UNCHANGED <<nodes, edges, last>>
                   ELSE /\ Caught(id, NoResponse, request.message)
                        /\ UNCHANGED pending
        /\ UNCHANGED <<pathname, call>>

\* onMounted(() => { loadCanvas() })
Mount ==
    /\ ~mounted
    /\ mounted' = TRUE
    /\ LoadCanvas

\* <button @click="loadCanvas">, rendered in the error branch only.
Retry_whileLoading ==
    /\ mounted
    /\ started < MaxLoads
    /\ LoadCanvas
    /\ UNCHANGED mounted

Retry_anyBranch ==
    /\ mounted
    /\ ~isLoading
    /\ started < MaxLoads
    /\ LoadCanvas
    /\ UNCHANGED mounted

Retry ==
    /\ mounted
    /\ View = "error"
    /\ started < MaxLoads
    /\ LoadCanvas
    /\ UNCHANGED mounted

\* The fetch of a suspended invocation rejects.
FetchRejects ==
    \E r \in pending :
        /\ r.stage = "fetch"
        /\ pending' = pending \ {r}
        /\ Caught(r.id, [NoResponse EXCEPT !.kind = "reject"], FailedToFetch)
        /\ UNCHANGED <<pathname, gistInfo, mounted, started, call>>

\* The fetch of a suspended invocation resolves with a response: a
\* non-success status is thrown, otherwise the invocation awaits json().
FetchResolves ==
    \E r \in pending : \E response \in Responses :
        /\ r.stage = "fetch"
        /\ response.kind = "response"
        /\ LET checked == loadCanvasFile_response(response) IN
           IF checked.ok
           THEN /\ pending' = (pending \ {r}) \cup
                      {[r EXCEPT !.stage = "json", !.response = response]}
                /\ UNCHANGED <<nodes, edges, isLoading, error, last>>
           ELSE /\ pending' = pending \ {r}
                /\ Caught(r.id, response, checked.message)
        /\ UNCHANGED <<pathname, gistInfo, mounted, started, call>>

\* response.json() of a suspended invocation settles; loadCanvasForVueFlow
\* converts the document and loadCanvas stores the result.
JsonSettles ==
    \E r \in pending :
        /\ r.stage = "json"
        /\ pending' = pending \ {r}
        /\ LET parsed == loadCanvasFile_json(r.response)
               converted == loadCanvasForVueFlow_convert(parsed.value)
           IN  IF ~parsed.ok THEN Caught(r.id, r.response, parsed.message)
               ELSE IF ~converted.ok THEN Caught(r.id, r.response, converted.message)
               ELSE /\ nodes' = withCanvasType(converted.value.nodes)
                    /\ edges' = converted.value.edges
                    /\ isLoading' = FALSE
                    /\ last' = [id |-> r.id, result |-> "ok", response |-> r.response]
                    /\ UNCHANGED error
        /\ UNCHANGED <<pathname, gistInfo, mounted, started, call>>

Next == Mount \/ Retry \/ FetchRejects \/ FetchResolves \/ JsonSettles

Spec == Init /\ [][Next]_vars

\* The viewer when every pending fetch settles, by a rejection or by a
\* response, and every pending response.json() settles.
SpecLive ==
    /\ Spec
    /\ WF_vars(FetchRejects \/ FetchResolves)
    /\ WF_vars(JsonSettles)

\* The fetch settled in a way that is no well-formed document: a rejection,
\* a non-success status, a body that is not JSON, or JSON lacking an array.
FailedResponse(response) ==
    \/ response.kind = "reject"
    \/ ~response.ok
    \/ ~response.json
    \/ response.value.nodes = UndefinedArray
    \/ response.value.edges = UndefinedArray

LocalPath == <<"c", "a", "n", "v", "a", "s", "/", "m", "y", "-", "c", "a", "n", "v", "a", "s", ".", "c", "a", "n", "v", "a", "s">>  \* 'canvas/my-canvas.canvas'

C3_OneInFlight ==
    /\ [](Cardinality(pending) <= 1 /\ (pending # {} => View = "loading"))
    /\ [][started' # started =>
            /\ started' = started + 1
            /\ pending = {}
            /\ ~mounted \/ View = "error"]_vars

C3_Witness ==
    /\ Cardinality(pending) = 1
    /\ started = 2
    /\ \E r \in pending : r.id = 2 /\ r.stage = "json"

\* C4: after a load that succeeded on a well-formed document, isLoading is
\* false, error is null, the stored edges are the converted edges and the
\* stored nodes are the converted nodes with the type 'canvas'; the minimal
\* document (one text node "Hi", no edges) gives one node with label "Hi",
\* content "Hi", the default background 'rgb(242 242 242)', and no edges.
C4_SuccessStoresConversion ==
    last.result = "ok" =>
        LET doc == last.response.value
            converted == convertNodesToVueFlow(doc.nodes)
        IN  /\ ~isLoading
            /\ error = Null
            /\ edges = convertEdgesToVueFlow(doc.edges)
            /\ Len(nodes) = Len(doc.nodes)
            /\ \A i \in 1..Len(nodes) :
                  /\ nodes[i].type = <<"c", "a", "n", "v", "a", "s">>
                  /\ [nodes[i] EXCEPT !.type = converted[i].type] = converted[i]
            /\ doc = MinimalDocument =>
                  /\ Len(nodes) = 1
                  /\ nodes[1].id = <<"n", "1">>
                  /\ nodes[1].data.label = <<"H", "i">>
                  /\ nodes[1].data.content = <<"H", "i">>
                  /\ nodes[1].style.backgroundColor = 
                        <<"r", "g", "b", "(", "2", "4", "2", " ", "2", "4", "2", " ", "2", "4", "2", ")">>
                  /\ edges = <<>>

C4_Witness ==
    /\ last.result = "ok"
    /\ last.response.value = MinimalDocument
    /\ View = "canvas"
    /\ Len(nodes) = 1

\* The path is '/' or nothing, then a non-empty segment, one '/', and a
\* non-empty segment.
TwoSegments(path) ==
    \E u, g \in {SubSeq(path, i, j) : i \in 1..Len(path), j \in 1..Len(path)} :
        /\ u # <<>>
        /\ g # <<>>
        /\ \A k \in 1..Len(u) : u[k] # "/"
        /\ \A k \in 1..Len(g) : g[k] # "/"
        /\ path \in {u \o <<"/">> \o g, <<"/">> \o u \o <<"/">> \o g}

\* C16: when the path is not of the two-segment form, no fetch is ever
\* issued, and once the page is mounted the last load has failed, the error
\* branch (with its usage example) is rendered with the message
\* 'Invalid URL format. Expected: /{username}/{gistId}', and a further load
\* starts only by the retry control of that branch.
C16_InvalidLocation ==
    /\ [](~TwoSegments(pathname) =>
            /\ pending = {}
            /\ mounted =>
                  /\ View = "error"
                  /\ error = <<"I", "n", "v", "a", "l", "i", "d", " ", "U", "R", "L", " ", "f", "o", "r", "m", "a", "t", ".", " ", "E", "x", "p", "e", "c", "t", "e", "d", ":", " ", "/", "{", "u", "s", "e", "r", "n", "a", "m", "e", "}", "/", "{", "g", "i", "s", "t", "I", "d", "}">>
                  /\ last.id = started
                  /\ last.result = "failed"
                  /\ last.response.kind = "none"
                  /\ nodes = <<>>
                  /\ edges = <<>>)
    /\ [][(~TwoSegments(pathname) /\ mounted /\ started' # started) => Retry]_vars

\* C20: the stored nodes and edges are either both empty, no load having
\* succeeded, or both the conversion of the document of one load, which is
\* the last load started and the only one that succeeded; once the canvas
\* is displayed nothing is in flight and no step changes the stored nodes,
\* the stored edges or the error.
C20_SnapshotFromNewestLoad ==
    /\ [](IF last.result = "ok"
          THEN /\ last.id = started
               /\ pending = {}
               /\ View = "canvas"
               /\ nodes = withCanvasType(
                              convertNodesToVueFlow(last.response.value.nodes))
               /\ edges = convertEdgesToVueFlow(last.response.value.edges)
          ELSE /\ nodes = <<>>
               /\ edges = <<>>
               /\ View # "canvas")
    /\ [][View = "canvas" =>
            (nodes' = nodes /\ edges' = edges /\ error' = error)]_vars

C20_Witness ==
    /\ last.result = "ok"
    /\ last.id = 3
    /\ started = 3
    /\ View = "canvas"
    /\ Len(nodes) = 2
    /\ Len(edges) = 1
    /\ nodes[1].id = edges[1].source

\* C21: when every fetch settles, a load that was started eventually
\* leaves the loading state; once it has, either error is a non-empty
\* message and the load failed, or error is null and the nodes and edges
\* converted from the document of that load are stored, never both; while
\* a load is in flight isLoading is true and error is null.
C21_LoadSettles ==
    /\ (mounted /\ isLoading) ~> ~isLoading
    /\ [](pending # {} => (isLoading /\ error = Null))
    /\ []((mounted /\ ~isLoading) =>
            /\ pending = {}
            /\ last.id = started
            /\ IF error # Null
               THEN /\ error \notin {Undefined, <<>>}
                    /\ last.result = "failed"
               ELSE /\ last.result = "ok"
                    /\ nodes = withCanvasType(
                                   convertNodesToVueFlow(last.response.value.nodes))
                    /\ edges = convertEdgesToVueFlow(last.response.value.edges))

C21_Witness ==
    /\ mounted
    /\ ~isLoading
    /\ started = 2
    /\ last.id = 2
    /\ last.response.kind = "reject"
    /\ error = <<"F", "a", "i", "l", "e", "d", " ", "t", "o", " ", "f", "e", "t", "c", "h">>
    /\ pending = {}

C16_Witness ==
    /\ pathname = <<"/", "u", "/", "a", "b", "/", "c">>
    /\ ~TwoSegments(pathname)
    /\ started = 2
    /\ last.id = 2
    /\ View = "error"
    /\ error = InvalidUrlFormat

-----------------------------------------------------------------------------
(* Specification SpecParse: parseUrlForGistInfo on every short path *)

MaxPathLen == 6

InitParse ==
    /\ ViewerInit(<<"/">>)
    /\ call \in {[fn |-> "none", arg |-> p, ret |-> Undefined] :
                   p \in ListsUpTo({"/", "u", "g"}, MaxPathLen)}

ParseUrlForGistInfo == Apply("parseUrlForGistInfo", parseUrlForGistInfo(call.arg))

NextParse == ParseUrlForGistInfo

SpecParse == InitParse /\ [][NextParse]_vars

\* C1: a path that, after one leading '/' is stripped, has exactly one '/'
\* with a non-empty segment on each side of it is parsed to those two
\* segments; every other path is parsed to null.
C1_ParseLocation ==
    call.fn = "parseUrlForGistInfo" =>
        LET p == IF call.arg # <<>> /\ Head(call.arg) = "/"
                 THEN Tail(call.arg) ELSE call.arg
            slashes == {i \in 1..Len(p) : p[i] = "/"}
        IN  IF Cardinality(slashes) = 1 /\ 1 \notin slashes /\ Len(p) \notin slashes
            THEN LET i == CHOOSE j \in slashes : TRUE IN
                 call.ret = [username |-> SubSeq(p, 1, i - 1),
                             gistId |-> SubSeq(p, i + 1, Len(p))]
            ELSE call.ret = NullObject

C1_Witness ==
    /\ call.fn = "parseUrlForGistInfo"
    /\ call.arg = <<"/", "u", "g", "/", "g", "u">>
    /\ call.ret = [username |-> <<"u", "g">>, gistId |-> <<"g", "u">>]

-----------------------------------------------------------------------------
(* Specification SpecConvert: the node and edge converters of the three    *)
(* variants of the loader, on short documents                              *)

MaxNodes == 2

MaxEdges == 2

SteelBlue == <<"#", "3", "3", "6", "6", "9", "9">>  \* '#336699'

RgbText == <<"r", "g", "b", "(", "1", "0", ",", " ", "2", "0", ",", " ", "3", "0", ")">>  \* 'rgb(10, 20, 30)'

Preset == <<"4">>  \* a color that is neither '#rrggbb' nor 'rgb(r,g,b)'

NodeTinted ==
    Node(<<"n", "4">>, TextKind, <<"T", "\n", "t">>, Undefined, 5, 6, 70, 30, SteelBlue)

NodePreset == Node(<<"n", "5">>, FileKind, Undefined, <<"d", "/">>, 7, 8, 90, 40, Preset)

EdgeToGroup ==
    Edge(<<"e", "3">>, <<"n", "3">>, <<"b", "o", "t", "t", "o", "m">>,
         <<"n", "1">>, <<"t", "o", "p">>, RgbText)

\* A text node whose text is the empty string and that also has a file.
NodeBlank == Node(<<"n", "6">>, TextKind, <<>>, <<"f">>, 1, 2, 30, 20, Undefined)

InitConvert ==
    LET NodePool == {NodeHi, NodeFile, NodeGroup, NodeTinted, NodePreset, NodeBlank}
        EdgePool == {EdgeHiFile, EdgeDangling, EdgeToGroup}
        ConvertDocuments ==
            {[nodes |-> ns, edges |-> es] :
                ns \in ListsUpTo(NodePool, MaxNodes),
                es \in ListsUpTo(EdgePool, MaxEdges)}
    IN /\ ViewerInit(<<"/">>)
       /\ call \in {[fn |-> "none", arg |-> doc, ret |-> Undefined] :
                      doc \in ConvertDocuments}

ConvertNodes == Apply("convertNodesToVueFlow", convertNodesToVueFlow(call.arg.nodes))

ConvertNodes_mix ==
    Apply("convertNodesToVueFlow_mix", convertNodesToVueFlow_mix(call.arg.nodes))

ConvertNodes_hsl ==
    Apply("convertNodesToVueFlow_hsl", convertNodesToVueFlow_hsl(call.arg.nodes))

ConvertEdges == Apply("convertEdgesToVueFlow", convertEdgesToVueFlow(call.arg.edges))

ConvertEdges_mix ==
    Apply("convertEdgesToVueFlow_mix", convertEdgesToVueFlow_mix(call.arg.edges))

ConvertEdges_hsl ==
    Apply("convertEdgesToVueFlow_hsl", convertEdgesToVueFlow_hsl(call.arg.edges))

NextConvert ==
    \/ ConvertNodes
    \/ ConvertNodes_mix
    \/ ConvertNodes_hsl
    \/ ConvertEdges
    \/ ConvertEdges_mix
    \/ ConvertEdges_hsl

SpecConvert == InitConvert /\ [][NextConvert]_vars

StrictNodeCalls == {"convertNodesToVueFlow_mix", "convertNodesToVueFlow_hsl"}

NodeCalls == StrictNodeCalls \cup {"convertNodesToVueFlow"}

EdgeCalls ==
    {"convertEdgesToVueFlow", "convertEdgesToVueFlow_mix", "convertEdgesToVueFlow_hsl"}

\* The positions of the nodes of kind 'text' or 'file' in a node list, and
\* the k-th of them.
KeptPositions(ns) ==
    {i \in 1..Len(ns) : ns[i].type \in {<<"t", "e", "x", "t">>, <<"f", "i", "l", "e">>}}

KeptPosition(ns, k) ==
    CHOOSE i \in KeptPositions(ns) :
        Cardinality({j \in KeptPositions(ns) : j < i}) = k - 1

\* The display node out is made from the source node n.
MadeFrom(out, n) ==
    /\ out.id = n.id
    /\ out.data.originalType = n.type
    /\ out.position = [x |-> n.x, y |-> n.y]

\* C5: the strict converters return one display node for each input node
\* of kind 'text' or 'file', in input order, and nothing for another kind;
\* the permissive converter returns one display node per input node, in
\* input order.
C5_NodeFilter ==
    /\ call.fn \in StrictNodeCalls =>
          /\ Len(call.ret) = Cardinality(KeptPositions(call.arg.nodes))
          /\ \A k \in 1..Len(call.ret) :
                MadeFrom(call.ret[k], call.arg.nodes[KeptPosition(call.arg.nodes, k)])
    /\ call.fn = "convertNodesToVueFlow" =>
          /\ Len(call.ret) = Len(call.arg.nodes)
          /\ \A i \in 1..Len(call.ret) : MadeFrom(call.ret[i], call.arg.nodes[i])

C5_Witness ==
    /\ call.fn = "convertNodesToVueFlow_hsl"
    /\ call.arg.nodes = <<NodeGroup, NodeFile>>
    /\ Len(call.ret) = 1
    /\ call.ret[1].id = <<"n", "2">>

\* C8: every edge converter maps the i-th source edge to the i-th display
\* edge with the same id, fromNode as source, toNode as target, fromSide as
\* sourceHandle and toSide as targetHandle; the output is as long as the
\* input whatever nodes the document has, so an edge whose endpoints name
\* no node, or a node that the node converter drops, is kept unchanged.
C8_EdgesOneToOne ==
    call.fn \in EdgeCalls =>
        /\ Len(call.ret) = Len(call.arg.edges)
        /\ \A i \in 1..Len(call.ret) :
              /\ call.ret[i].id = call.arg.edges[i].id
              /\ call.ret[i].source = call.arg.edges[i].fromNode
              /\ call.ret[i].target = call.arg.edges[i].toNode
              /\ call.ret[i].sourceHandle = call.arg.edges[i].fromSide
              /\ call.ret[i].targetHandle = call.arg.edges[i].toSide

C8_Witness ==
    /\ call.fn = "convertEdgesToVueFlow_hsl"
    /\ call.arg.nodes = <<NodeGroup>>
    /\ call.arg.edges = <<EdgeToGroup, EdgeDangling>>
    /\ Len(call.ret) = 2
    /\ call.ret[1].source = <<"n", "3">>
    /\ call.ret[2].target = <<"n", "9">>

\* A result of darkenColor is text of the form rgb(...).
IsDerived(color) ==
    /\ Len(color) > 5
    /\ SubSeq(color, 1, 4) = <<"r", "g", "b", "(">>
    /\ color[Len(color)] = ")"
    /\ \E i \in 1..Len(color) : color[i] = ","

\* C9 as stated: for every edge the stroke is a result of darkenColor on
\* the edge's color when the edge has one, a stroke is present when it has
\* none, and all edges have the same stroke width.
C9_StrokeDerived_AsClaimed ==
    call.fn \in EdgeCalls =>
        \A i \in 1..Len(call.ret) :
            /\ Truthy(call.arg.edges[i].color) =>
                  /\ IsDerived(call.ret[i].style.stroke)
                  /\ call.arg.edges[i].color = Red =>
                        call.ret[i].style.stroke # Red
            /\ ~Truthy(call.arg.edges[i].color) =>
                  call.ret[i].style.stroke # Undefined
            /\ \A j \in 1..Len(call.ret) :
                  call.ret[j].style.strokeWidth = call.ret[i].style.strokeWidth

\* C9 (amended): in the mix-with-black variant the stroke is darkenColor of
\* the edge's color, or of '#b1b1b7' when the edge has none, darkened by 50
\* ('#ff0000' gives 'rgb(128, 0, 0)', no color gives 'rgb(89, 89, 92)'), and
\* the width is 10; in utils/canvasLoader.ts the stroke is the edge's color
\* unchanged, or '#b1b1b7', and the width is 2; in the HSL variant the
\* stroke is the edge's color unchanged, absent when the edge has none, and
\* the width is 8.
C9_StrokePerVariant ==
    \A i \in 1..(IF call.fn \in EdgeCalls THEN Len(call.ret) ELSE 0) :
        LET color == call.arg.edges[i].color
            style == call.ret[i].style
        IN  /\ call.fn = "convertEdgesToVueFlow_mix" =>
                  /\ style.strokeWidth = 10
                  /\ Truthy(color) => style.stroke = darkenColor_mix(color, 50)
                  /\ color = Red => style.stroke = 
                            <<"r", "g", "b", "(", "1", "2", "8", ",", " ", "0", ",", " ", "0", ")">>
                  /\ color = RgbText => style.stroke = 
                            <<"r", "g", "b", "(", "5", ",", " ", "1", "0", ",", " ", "1", "5", ")">>
                  /\ ~Truthy(color) => style.stroke = 
                            <<"r", "g", "b", "(", "8", "9", ",", " ", "8", "9", ",", " ", "9", "2", ")">>
            /\ call.fn = "convertEdgesToVueFlow" =>
                  /\ style.strokeWidth = 2
                  /\ Truthy(color) => style.stroke = color
                  /\ ~Truthy(color) => style.stroke = <<"#", "b", "1", "b", "1", "b", "7">>
            /\ call.fn = "convertEdgesToVueFlow_hsl" =>
                  /\ style.strokeWidth = 8
                  /\ style.stroke = color

C9_Witness ==
    /\ call.fn = "convertEdgesToVueFlow_mix"
    /\ call.arg.edges = <<EdgeDangling, EdgeHiFile>>
    /\ call.ret[1].style.stroke = 
                            <<"r", "g", "b", "(", "1", "2", "8", ",", " ", "0", ",", " ", "0", ")">>
    /\ call.ret[2].style.stroke = 
                            <<"r", "g", "b", "(", "8", "9", ",", " ", "8", "9", ",", " ", "9", "2", ")">>

\* The color in a border '4px solid <color>' or '1px solid <color>'.
BorderColorOf(border) == SubSeq(border, 11, Len(border))

\* C10 as stated: for every display node the background and the border
\* color are results of darkenColor on the node's color when it has one;
\* when it has none the background is the dark default '#1c2127' and the
\* border color is a result of darkenColor; the border radius is '8px' and
\* the font size '14px'.
C10_NodeColorsDerived_AsClaimed ==
    call.fn \in NodeCalls =>
        \A k \in 1..Len(call.ret) :
            LET color == call.ret[k].data.color
                style == call.ret[k].style
            IN  /\ Truthy(color) => IsDerived(style.backgroundColor)
                /\ ~Truthy(color) => style.backgroundColor = <<"#", "1", "c", "2", "1", "2", "7">>
                /\ IsDerived(BorderColorOf(style.border))
                /\ style.borderRadius = <<"8", "p", "x">>
                /\ style.fontSize = <<"1", "4", "p", "x">>

\* C10 (amended): in the HSL variant the background is darkenColor(color,
\* 80, 5) when the node has a color and '#1c2127' when it has none, and the
\* border color is darkenColor(color or '#1c2127', 10, 10); in the
\* mix-with-black variant the background is darkenColor(color, 70) or
\* '#1c2127' and the border color is darkenColor(color, 30), or the
\* constant '#a1a1a1' when the node has no color; in utils/canvasLoader.ts
\* the background is the node's color unchanged, or 'rgb(242 242 242)', and
\* the border is the constant '1px solid #ddd'.  In all three the border
\* radius is '8px' and the font size '14px'.
C10_NodeColorsPerVariant ==
    \A k \in 1..(IF call.fn \in NodeCalls THEN Len(call.ret) ELSE 0) :
        LET color == call.ret[k].data.color
            style == call.ret[k].style
        IN  /\ style.borderRadius = <<"8", "p", "x">>
            /\ style.fontSize = <<"1", "4", "p", "x">>
            /\ call.fn = "convertNodesToVueFlow_hsl" =>
                  /\ Truthy(color) =>
                        /\ style.backgroundColor = darkenColor_hsl(color, 80, 5)
                        /\ style.border = BorderSolid \o darkenColor_hsl(color, 10, 10)
                  /\ color = Red =>
                        /\ style.backgroundColor = 
                            <<"r", "g", "b", "(", "5", "1", ",", " ", "0", ",", " ", "4", ")">>
                        /\ BorderColorOf(style.border) = 
                            <<"r", "g", "b", "(", "2", "3", "0", ",", " ", "0", ",", " ", "3", "8", ")">>
                  /\ color = Preset => style.backgroundColor = 
                            <<"r", "g", "b", "(", "2", "0", "0", ",", " ", "2", "0", "0", ",", " ", "2", "0", "0", ")">>
                  /\ ~Truthy(color) =>
                        /\ style.backgroundColor = <<"#", "1", "c", "2", "1", "2", "7">>
                        /\ BorderColorOf(style.border) = 
                            <<"r", "g", "b", "(", "2", "5", ",", " ", "3", "1", ",", " ", "3", "5", ")">>
            /\ call.fn = "convertNodesToVueFlow_mix" =>
                  /\ Truthy(color) =>
                        /\ style.backgroundColor = darkenColor_mix(color, 70)
                        /\ style.border = BorderSolid \o darkenColor_mix(color, 30)
                  /\ color = Red =>
                        /\ style.backgroundColor = 
                            <<"r", "g", "b", "(", "7", "7", ",", " ", "0", ",", " ", "0", ")">>
                        /\ BorderColorOf(style.border) = 
                            <<"r", "g", "b", "(", "1", "7", "9", ",", " ", "0", ",", " ", "0", ")">>
                  /\ ~Truthy(color) =>
                        /\ style.backgroundColor = <<"#", "1", "c", "2", "1", "2", "7">>
                        /\ BorderColorOf(style.border) = <<"#", "a", "1", "a", "1", "a", "1">>
            /\ call.fn = "convertNodesToVueFlow" =>
                  /\ Truthy(color) => style.backgroundColor = color
                  /\ ~Truthy(color) => style.backgroundColor = 
                            <<"r", "g", "b", "(", "2", "4", "2", " ", "2", "4", "2", " ", "2", "4", "2", ")">>
                  /\ style.border = 
                            <<"1", "p", "x", " ", "s", "o", "l", "i", "d", " ", "#", "d", "d", "d">>

C10_Witness ==
    /\ call.fn = "convertNodesToVueFlow_hsl"
    /\ call.arg.nodes = <<NodeFile, NodeHi>>
    /\ call.ret[1].style.backgroundColor = 
                            <<"r", "g", "b", "(", "5", "1", ",", " ", "0", ",", " ", "4", ")">>
    /\ call.ret[2].style.backgroundColor = <<"#", "1", "c", "2", "1", "2", "7">>

\* The content the claim gives a node: the text when non-empty, otherwise
\* the file path when non-empty, otherwise the empty string.
ContentOf(n) ==
    IF n.text # Undefined /\ n.text # <<>> THEN n.text
    ELSE IF n.file # Undefined /\ n.file # <<>> THEN n.file
    ELSE <<>>

\* The display node out carries the data of the source node n unchanged.
SameData(out, n) ==
    /\ out.id = n.id
    /\ out.position = [x |-> n.x, y |-> n.y]
    /\ out.data.width = n.width
    /\ out.data.height = n.height
    /\ out.data.originalType = n.type
    /\ out.data.color = n.color
    /\ out.data.content = ContentOf(n)

\* C11: every display node returned by a node converter has the id,
\* position, width, height, kind and color of the source node it is made
\* from, and as content the node's text when non-empty, otherwise its file
\* when non-empty, otherwise the empty string; the converters never change
\* the node list they are given.
C11_NodeDataUnchanged ==
    /\ [](/\ call.fn \in StrictNodeCalls =>
                \A k \in 1..Len(call.ret) :
                    SameData(call.ret[k],
                             call.arg.nodes[KeptPosition(call.arg.nodes, k)])
          /\ call.fn = "convertNodesToVueFlow" =>
                \A i \in 1..Len(call.ret) : SameData(call.ret[i], call.arg.nodes[i]))
    /\ [][call'.arg = call.arg]_vars

C11_Witness ==
    /\ call.fn = "convertNodesToVueFlow_hsl"
    /\ call.arg.nodes = <<NodeBlank, NodeFile>>
    /\ call.ret[1].data.content = <<"f">>
    /\ call.ret[2].data.color = Red
    /\ call.ret[2].data.width = 200

-----------------------------------------------------------------------------
(* Specification SpecLabel: getNodeLabel on nodes with many contents *)

MaxLineLen == 60

MaxFileLen == 4

LabelNode(kind, text, file) ==
    [id |-> <<"n", "1">>, type |-> kind, text |-> text, file |-> file,
     x |-> 0, y |-> 0, width |-> 100, height |-> 50, color |-> Undefined]

\* LineOfLength(n) is a line of n characters whose i-th character is the
\* last digit of i.
InitLabel ==
    LET LineOfLength(n) == [i \in 1..n |-> Digit(i % 10)]
        LabelTexts ==
            {Undefined, <<>>, HelloWorld}
            \cup {LineOfLength(n) \o rest :
                    n \in 0..MaxLineLen,
                    rest \in {<<>>, <<"\n">>, <<"\n", "W", "\n", "X">>}}
        LabelFiles ==
            {Undefined, PathABC} \cup ListsUpTo({"/", "c", "."}, MaxFileLen)
        LabelNodes ==
            {LabelNode(k, t, f) : k \in {TextKind, FileKind, GroupKind},
                                  t \in LabelTexts, f \in {Undefined, PathABC}}
            \cup {LabelNode(k, t, f) : k \in {TextKind, FileKind, GroupKind},
                                       t \in {Undefined, <<>>}, f \in LabelFiles}
    IN /\ ViewerInit(<<"/">>)
       /\ call \in {[fn |-> "none", arg |-> n, ret |-> Undefined] : n \in LabelNodes}

GetNodeLabel == Apply("getNodeLabel", getNodeLabel(call.arg))

NextLabel == GetNodeLabel

SpecLabel == InitLabel /\ [][NextLabel]_vars

\* The text of t before its first line break.
FirstLineOf(t) ==
    LET breaks == {i \in 1..Len(t) : t[i] = "\n"} IN
    IF breaks = {} THEN t
    ELSE SubSeq(t, 1, (CHOOSE i \in breaks : \A j \in breaks : i <= j) - 1)

\* C6: the label of a node with non-empty text is its first line when that
\* line has at most 50 characters, and otherwise the first 47 characters of
\* the line followed by "..."; the label has at most 50 characters, and
\* "Hello\nWorld" is labelled "Hello".
C6_TextLabel ==
    (call.fn = "getNodeLabel" /\ Truthy(call.arg.text)) =>
        LET line == FirstLineOf(call.arg.text) IN
        /\ Len(line) <= 50 => call.ret = line
        /\ Len(line) > 50 =>
              /\ Len(call.ret) = 50
              /\ \A i \in 1..47 : call.ret[i] = line[i]
              /\ \A i \in 48..50 : call.ret[i] = "."
        /\ Len(call.ret) <= 50
        /\ call.arg.text = HelloWorld => call.ret = <<"H", "e", "l", "l", "o">>

C6_Witness ==
    /\ call.fn = "getNodeLabel"
    /\ Truthy(call.arg.text)
    /\ Len(FirstLineOf(call.arg.text)) = 60
    /\ Len(call.arg.text) > 60
    /\ SubSeq(call.ret, 46, 50) = <<"6", "7", ".", ".", ".">>

\* The last element of f split on '/'.
LastSegmentOf(f) ==
    LET slashes == {i \in 1..Len(f) : f[i] = "/"} IN
    IF slashes = {} THEN f
    ELSE SubSeq(f, (CHOOSE i \in slashes : \A j \in slashes : i >= j) + 1, Len(f))

\* C7 as stated: the label of a node with a file path (and no text) is the
\* last element of the path split on '/', also when the path ends in '/';
\* the label of a node with neither text nor file is "<kind> node".
C7_FileLabel_AsClaimed ==
    (call.fn = "getNodeLabel" /\ ~Truthy(call.arg.text)) =>
        /\ Truthy(call.arg.file) => call.ret = LastSegmentOf(call.arg.file)
        /\ ~Truthy(call.arg.file) => call.ret = call.arg.type \o NodeSuffix

\* C7 (amended): the label of a node with a file path (and no text) is the
\* last element of the path split on '/' when that element is not empty,
\* and the whole path when it is empty (the path ends in '/'); the label of
\* a node with neither text nor file is "<kind> node".
C7_FileLabel ==
    (call.fn = "getNodeLabel" /\ ~Truthy(call.arg.text)) =>
        /\ (Truthy(call.arg.file) /\ LastSegmentOf(call.arg.file) # <<>>) =>
              call.ret = LastSegmentOf(call.arg.file)
        /\ (Truthy(call.arg.file) /\ LastSegmentOf(call.arg.file) = <<>>) =>
              call.ret = call.arg.file
        /\ call.arg.file = PathABC => call.ret = <<"c", ".", "m", "d">>
        /\ ~Truthy(call.arg.file) => call.ret = call.arg.type \o NodeSuffix

C7_Witness ==
    /\ call.fn = "getNodeLabel"
    /\ call.arg.file = <<"c", "/", ".", "/">>
    /\ call.ret = <<"c", "/", ".", "/">>

-----------------------------------------------------------------------------
(* Specification SpecUrl: convertGistToRawUrl and the first step of        *)
(* loadCanvasFile on URLs built by constructGistUrl, on raw URLs and on    *)
(* other strings                                                           *)

MaxIdLen == 2

MaxTokenLen == 2

\* The argument records how the string was built: username, gistId and
\* fragment for constructGistUrl(username, gistId) followed by the fragment,
\* undefined for a string built otherwise.
InitUrl ==
    LET Owners == {<<"u">>, <<"o", "-", "1">>}
        Ids == ListsUpTo({"a", "9", "F", "z"}, MaxIdLen) \ {<<>>}
        Fragments ==
            {<<>>, <<"#", "L", "1">>,
             <<"#", "f", "i", "l", "e", "-", "m", "y", "-", "d", "i", "a", "g", "r", "a", "m", "-", "c", "a", "n", "v", "a", "s">>}
                \cup {FilePrefix \o t : t \in ListsUpTo({"m", "-"}, MaxTokenLen)}
        Built ==
            {[username |-> u, gistId |-> g, fragment |-> f,
              url |-> constructGistUrl(u, g) \o f] :
                u \in Owners, g \in Ids, f \in Fragments}
        RawUrls ==
            {RawUrlPrefix \o <<"u", "/", "a", "b", "/", "r", "a", "w", "/">>,
             RawUrlPrefix \o <<"u", "/", "a", "b", "/", "r", "a", "w", "/", "m", ".", "m">>,
             RawUrlPrefix \o <<"u", "/", "a", "b", "/", "r", "a", "w", "/", "#", "f", "i", "l", "e", "-", "m", "-", "m">>,
             RawUrlPrefix \o <<"u", "/", "a", "b", "/", "r", "a", "w", "/", "?", "f", "r", "o", "m", "=", "g", "i", "s", "t", ".", "g", "i", "t", "h", "u", "b", ".", "c", "o", "m", "/", "u", "/", "a", "b">>,
             RawHostName}
        Others ==
            {<<>>, <<"c", "a", "n", "v", "a", "s", "/", "m", "y", "-", "c", "a", "n", "v", "a", "s", ".", "c", "a", "n", "v", "a", "s">>,
             <<"h", "t", "t", "p", "s", ":", "/", "/", "e", "x", "a", "m", "p", "l", "e", ".", "c", "o", "m", "/", "u", "/", "a", "b">>,
             GistHostName, GistUrlPrefix \o <<"u">>, GistUrlPrefix \o <<"/", "a", "b">>}
        Given ==
            {[username |-> Undefined, gistId |-> Undefined, fragment |-> Undefined,
              url |-> s] : s \in RawUrls \cup Others}
    IN  /\ ViewerInit(<<"/">>)
        /\ call \in {[fn |-> "none", arg |-> a, ret |-> Undefined] :
                       a \in Built \cup Given}

ConvertGistToRawUrl ==
    Apply("convertGistToRawUrl", convertGistToRawUrl(call.arg.url))

\* loadCanvasFile up to its fetch.
LoadCanvasFile == Apply("loadCanvasFile", loadCanvasFile_request(call.arg.url))

NextUrl ==
    \/ ConvertGistToRawUrl
    \/ LoadCanvasFile

SpecUrl == InitUrl /\ [][NextUrl]_vars

\* The filename the claims derive from a fragment: the text after '#file-'
\* with every dash replaced by a dot, nothing for another fragment.
DerivedFilename(fragment) ==
    IF Len(fragment) >= 6 /\ SubSeq(fragment, 1, 6) = <<"#", "f", "i", "l", "e", "-">>
    THEN [i \in 1..(Len(fragment) - 6) |->
             IF fragment[i + 6] = "-" THEN "." ELSE fragment[i + 6]]
    ELSE <<>>

\* C12 as stated: for every URL built by constructGistUrl from a username
\* and a gistId, with or without a fragment, convertGistToRawUrl returns
\* the raw host followed by the same username, the complete gistId, '/raw/'
\* and the derived filename (no filename without a file fragment).
C12_RawUrlNamesDocument_AsClaimed ==
    (call.fn = "convertGistToRawUrl" /\ call.arg.username # Undefined) =>
        call.ret = <<"h", "t", "t", "p", "s", ":", "/", "/", "g", "i", "s", "t", ".", "g", "i", "t", "h", "u", "b", "u", "s", "e", "r", "c", "o", "n", "t", "e", "n", "t", ".", "c", "o", "m", "/">>
                     \o call.arg.username \o <<"/">> \o call.arg.gistId
                     \o <<"/", "r", "a", "w", "/">> \o DerivedFilename(call.arg.fragment)

\* The longest prefix of s made of hexadecimal digits of either case.
RECURSIVE HexPrefixOf(_)
HexPrefixOf(s) ==
    IF s # <<>> /\ s[1] \in {"0", "1", "2", "3", "4", "5", "6", "7", "8", "9",
                             "a", "b", "c", "d", "e", "f",
                             "A", "B", "C", "D", "E", "F"}
    THEN <<s[1]>> \o HexPrefixOf(Tail(s))
    ELSE <<>>

\* s ends with the text t.
EndsWith(s, t) ==
    Len(s) >= Len(t) /\ SubSeq(s, Len(s) - Len(t) + 1, Len(s)) = t

\* C13: when convertGistToRawUrl converts a URL built by constructGistUrl
\* and followed by a fragment '#file-<tokens>', the result ends with '/raw/'
\* followed by <tokens> with every dash replaced by a dot and nothing else
\* changed; '#file-my-diagram-canvas' gives 'my.diagram.canvas'.
C13_FilenameDashesToDots ==
    (/\ call.fn = "convertGistToRawUrl"
     /\ call.arg.username # Undefined
     /\ call.ret # call.arg.url) =>
        /\ EndsWith(call.ret, <<"/", "r", "a", "w", "/">> \o DerivedFilename(call.arg.fragment))
        /\ call.arg.fragment = <<"#", "f", "i", "l", "e", "-", "m", "y", "-", "d", "i", "a", "g", "r", "a", "m", "-", "c", "a", "n", "v", "a", "s">> =>
              EndsWith(call.ret, <<"/", "r", "a", "w", "/", "m", "y", ".", "d", "i", "a", "g", "r", "a", "m", ".", "c", "a", "n", "v", "a", "s">>)

C13_Witness ==
    /\ call.fn = "convertGistToRawUrl"
    /\ call.arg.gistId = <<"a", "9">>
    /\ call.arg.fragment = <<"#", "f", "i", "l", "e", "-", "m", "y", "-", "d", "i", "a", "g", "r", "a", "m", "-", "c", "a", "n", "v", "a", "s">>
    /\ call.ret = <<"h", "t", "t", "p", "s", ":", "/", "/", "g", "i", "s", "t", ".", "g", "i", "t", "h", "u", "b", "u", "s", "e", "r", "c", "o", "n", "t", "e", "n", "t", ".", "c", "o", "m", "/", "u", "/", "a", "9", "/", "r", "a", "w", "/", "m", "y", ".", "d", "i", "a", "g", "r", "a", "m", ".", "c", "a", "n", "v", "a", "s">>

\* C14: convertGistToRawUrl returns every URL that names the raw host
\* unchanged, so that converting its result again returns the same result.
C14_RawUrlUnchanged ==
    (call.fn = "convertGistToRawUrl"
        /\ \E i \in 1..Len(call.arg.url) :
              Len(call.arg.url) >= i + 25
                  /\ SubSeq(call.arg.url, i, i + 25) = <<"g", "i", "s", "t", ".", "g", "i", "t", "h", "u", "b", "u", "s", "e", "r", "c", "o", "n", "t", "e", "n", "t", ".", "c", "o", "m">>) =>
        /\ call.ret = call.arg.url
        /\ convertGistToRawUrl(call.ret) = call.ret

C14_Witness ==
    /\ call.fn = "convertGistToRawUrl"
    /\ call.arg.url = <<"h", "t", "t", "p", "s", ":", "/", "/", "g", "i", "s", "t", ".", "g", "i", "t", "h", "u", "b", "u", "s", "e", "r", "c", "o", "n", "t", "e", "n", "t", ".", "c", "o", "m", "/", "u", "/", "a", "b", "/", "r", "a", "w", "/", "?", "f", "r", "o", "m", "=", "g", "i", "s", "t", ".", "g", "i", "t", "h", "u", "b", ".", "c", "o", "m", "/", "u", "/", "a", "b">>
    /\ call.ret = call.arg.url

\* The conversion recognizes no shape in the argument: a built URL whose
\* gistId does not start with a hexadecimal digit, or a given string that
\* does not name the raw host (none of the given strings has the shape
\* gist.github.com/<username>/<gistId>).
Unrecognized ==
    IF call.arg.username # Undefined THEN HexPrefixOf(call.arg.gistId) = <<>>
    ELSE call.arg.url \notin
             {RawUrlPrefix \o <<"u", "/", "a", "b", "/", "r", "a", "w", "/">>,
              RawUrlPrefix \o <<"u", "/", "a", "b", "/", "r", "a", "w", "/", "m", ".", "m">>,
              RawUrlPrefix \o <<"u", "/", "a", "b", "/", "r", "a", "w", "/", "#", "f", "i", "l", "e", "-", "m", "-", "m">>,
              RawUrlPrefix \o <<"u", "/", "a", "b", "/", "r", "a", "w", "/", "?", "f", "r", "o", "m", "=", "g", "i", "s", "t", ".", "g", "i", "t", "h", "u", "b", ".", "c", "o", "m", "/", "u", "/", "a", "b">>,
              <<"g", "i", "s", "t", ".", "g", "i", "t", "h", "u", "b", "u", "s", "e", "r", "c", "o", "n", "t", "e", "n", "t", ".", "c", "o", "m">>}

-----------------------------------------------------------------------------
(* Specification SpecColor: the two darkenColor functions on colors of     *)
(* every format, with the darkening and the hue shift of the argument      *)

\* Six-digit colors whose channels are 0, 1, 127, 128, 200 or 255 are
\* darkened not at all or fully; the other colors also by 20 percent.
InitColor ==
    LET Pairs == {<<"0", "0">>, <<"0", "1">>, <<"7", "f">>, <<"8", "0">>, <<"c", "8">>, <<"f", "f">>}
        Grid == {<<"#">> \o r \o g \o b : r \in Pairs, g \in Pairs, b \in Pairs}
                    \cup {<<"#", "F", "F", "0", "0", "0", "0">>, SteelBlue}
        GridSettings == {<<0, 0>>} \cup {<<100, hs>> : hs \in {0, 30, 180, 360}}
        Others == {Undefined, Null, <<>>,
                   <<"r", "e", "d">>, <<"h", "s", "l", "(", "0", ",", " ", "1", "0", "0", "%", ",", " ", "5", "0", "%", ")">>, <<"R", "G", "B", "(", "1", ",", " ", "2", ",", " ", "3", ")">>, <<" ", "#", "f", "f", "0", "0", "0", "0">>,
                   <<"r", "g", "b">>, <<"r", "g", "b", "(", "1", ",", " ", "2", ")">>, <<"r", "g", "b", "(", "1", "2", ")">>,
                   <<"r", "g", "b", "(", "1", "0", ",", " ", "2", "0", ",", " ", "3", "0", ")">>, <<"r", "g", "b", "(", "2", "5", "5", ",", "0", ",", "0", ")">>, <<"r", "g", "b", "a", "(", "1", ",", " ", "2", ",", " ", "3", ",", " ", "0", ".", "5", ")">>,
                   <<"r", "g", "b", "(", "0", " ", "1", "2", "8", " ", "2", "5", "5", ")">>,
                   <<"#">>, <<"#", "a", "b", "c">>, <<"#", "1", "2", "3", "4", "5">>, <<"#", "1", "2", "3", "4", "5", "6", "7">>, <<"#", "g", "g", "h", "h", "i", "i">>,
                   <<"#", "f", "f", "0", "0">>, <<"#", "f", "f", "0", "0", "z", "z">>}
        OtherSettings == {<<dp, hs>> : dp \in {0, 20, 100}, hs \in {0, 30}}
        Arguments ==
            {[color |-> c, darkenPercentage |-> s[1], hueShiftDegrees |-> s[2]] :
                c \in Grid, s \in GridSettings}
            \cup {[color |-> c, darkenPercentage |-> s[1], hueShiftDegrees |-> s[2]] :
                    c \in Others, s \in OtherSettings}
    IN /\ ViewerInit(<<"/">>)
       /\ call \in {[fn |-> "none", arg |-> a, ret |-> Undefined] : a \in Arguments}

DarkenColor_mix ==
    Apply("darkenColor_mix", darkenColor_mix(call.arg.color, call.arg.darkenPercentage))

DarkenColor_hsl ==
    Apply("darkenColor_hsl",
          darkenColor_hsl(call.arg.color, call.arg.darkenPercentage,
                          call.arg.hueShiftDegrees))

NextColor == DarkenColor_mix \/ DarkenColor_hsl

SpecColor == InitColor /\ [][NextColor]_vars

ColorCalls == {"darkenColor_mix", "darkenColor_hsl"}

\* '#' and six hexadecimal digits
SixDigitHex(color) ==
    /\ Len(color) = 7
    /\ color[1] = "#"
    /\ \A i \in 2..7 : IsHexChar(color[i])

\* 'rgb' and then at least three numbers, each at most 255
RgbTriple(color) ==
    /\ StartsWith(color, <<"r", "g", "b">>)
    /\ Len(DigitRuns(color)) >= 3
    /\ \A i \in 1..3 : ParseIntDec(DigitRuns(color)[i])[1] <= 255

\* No color, or a string that starts neither with '#' nor with 'rgb'
\* followed somewhere by three numbers.
NoColor(color) ==
    \/ color \in {Undefined, Null, <<>>}
    \/ /\ ~StartsWith(color, <<"#">>)
       /\ ~(StartsWith(color, <<"r", "g", "b">>) /\ Len(DigitRuns(color)) >= 3)

Black == <<"r", "g", "b", "(", "0", ",", " ", "0", ",", " ", "0", ")">>

C18_OtherFormatsGiveGray_AsClaimed ==
    (/\ call.fn \in ColorCalls
     /\ \/ call.arg.color \in {Undefined, Null, <<>>}
        \/ /\ ~SixDigitHex(call.arg.color)
           /\ ~(StartsWith(call.arg.color, <<"r", "g", "b">>)
                  /\ Len(DigitRuns(call.arg.color)) >= 3))
        => call.ret = FallbackGray

\* C19: without darkening and without hue shift, the variant that works in
\* HSL returns for a six-digit '#' color the three channels of that color,
\* each within 1; '#ff0000' gives 'rgb(255, 0, 0)'.
C19_RoundTrip ==
    (/\ call.fn = "darkenColor_hsl"
     /\ call.arg.darkenPercentage = 0
     /\ call.arg.hueShiftDegrees = 0
     /\ SixDigitHex(call.arg.color)) =>
        LET color == call.arg.color
            r == DigitsValue(color, 2, 3, 16)
            g == DigitsValue(color, 4, 5, 16)
            b == DigitsValue(color, 6, 7, 16)
        IN  /\ \E i, j, k \in -1..1 :
                  call.ret = RgbString(<<r + i>>, <<g + j>>, <<b + k>>)
            /\ color = <<"#", "f", "f", "0", "0", "0", "0">> => call.ret = <<"r", "g", "b", "(", "2", "5", "5", ",", " ", "0", ",", " ", "0", ")">>

C19_Witness ==
    /\ call.fn = "darkenColor_hsl"
    /\ call.arg = [color |-> <<"#", "0", "1", "7", "f", "c", "8">>, darkenPercentage |-> 0,
                   hueShiftDegrees |-> 0]
    /\ call.ret = <<"r", "g", "b", "(", "1", ",", " ", "1", "2", "7", ",", " ", "2", "0", "0", ")">>

====
